---- MODULE Spec2Model ----
(***************************************************************************)
(* Model of src/app.py: a Streamlit script that loads one shared text      *)
(* generation pipeline and, on "Run Both AIs", answers the typed query     *)
(* twice: directly through the pipeline (run_non_agentic_llm) and through  *)
(* a routed path (run_agent) that hands arithmetic-looking queries to      *)
(* simple_calculator, which is Python's eval() inside try/except.          *)
(*                                                                         *)
(* Python strings are sequences of one-character strings, so that          *)
(* lower(), replace(), strip(), the "in" test and eval() are computed      *)
(* character by character.                                                 *)
(***************************************************************************)
EXTENDS Integers, Sequences, FiniteSets, TLC

\* ------------------------------------------------------------------ bounds

\* A typed query is a concatenation of at most MaxFrags fragments.
MaxFrags == 3
\* Executions of the body of load_offline_llm that a behaviour may hold.
MaxBodyRuns == 2
\* Browser sessions (script threads) of the shared-model specification.
NumSessions == 2

\* ------------------------------------------------------- program constants

NoneVal == [kind |-> "None"]

\* run_agent: max_new_tokens of the generation fallback.
AGENT_MAX_NEW_TOKENS == 50
\* run_non_agentic_llm: max_new_tokens ("Longer response for non-agentic").
DIRECT_MAX_NEW_TOKENS == 100
\* num_return_sequences of both calls.
NUM_RETURN_SEQUENCES == 1

AgentToolStep == "Agent detected a calculation request. Attempting to use calculator tool..."
AgentLLMStep == "Agent generating response using LLM..."
DirectStep == "Directly generating response using LLM (no tools).."

\* ------------------------------------------------------------ str methods

UpperChars ==
  <<"A", "B", "C", "D", "E", "F", "G", "H", "I", "J", "K", "L", "M",
    "N", "O", "P", "Q", "R", "S", "T", "U", "V", "W", "X", "Y", "Z">>

LowerChars ==
  <<"a", "b", "c", "d", "e", "f", "g", "h", "i", "j", "k", "l", "m",
    "n", "o", "p", "q", "r", "s", "t", "u", "v", "w", "x", "y", "z">>

Range(f) == {f[i] : i \in DOMAIN f}

IsUpper(c) == c \in Range(UpperChars)

LowerChar(c) ==
  IF IsUpper(c)
  THEN LowerChars[CHOOSE i \in DOMAIN UpperChars : UpperChars[i] = c]
  ELSE c

\* str.lower()
Lower(s) == [i \in DOMAIN s |-> LowerChar(s[i])]

IsSpace(c) == c \in {" ", "\t", "\n"}

\* str.strip()
Strip(s) ==
  IF \A i \in DOMAIN s : IsSpace(s[i]) THEN <<>>
  ELSE LET a == CHOOSE i \in DOMAIN s :
                  ~IsSpace(s[i]) /\ \A k \in 1..(i - 1) : IsSpace(s[k])
           b == CHOOSE i \in DOMAIN s :
                  ~IsSpace(s[i]) /\ \A k \in (i + 1)..Len(s) : IsSpace(s[k])
       IN SubSeq(s, a, b)

\* s[i:].startswith(p)
StartsAt(s, i, p) ==
  /\ i + Len(p) - 1 <= Len(s)
  /\ \A k \in 1..Len(p) : s[i + k - 1] = p[k]

\* p in s
Contains(s, p) == \E i \in 1..(Len(s) + 1) : StartsAt(s, i, p)

\* s.replace(p, ""), p non-empty: leftmost occurrences, not overlapping,
\* in one pass.
RECURSIVE RemoveFrom(_, _, _)
RemoveFrom(s, i, p) ==
  IF i > Len(s) THEN <<>>
  ELSE IF StartsAt(s, i, p) THEN RemoveFrom(s, i + Len(p), p)
  ELSE <<s[i]>> \o RemoveFrom(s, i + 1, p)

Remove(s, p) == RemoveFrom(s, 1, p)

CALCULATE == <<"c", "a", "l", "c", "u", "l", "a", "t", "e">>
WHAT_IS == <<"w", "h", "a", "t", " ", "i", "s">>
THE_RESULT_OF == <<"t", "h", "e", " ", "r", "e", "s", "u", "l", "t", " ", "o", "f">>
QUESTION_MARK == <<"?">>
OperatorChars == {"+", "-", "*", "/"}

\* ------------------------------------------------------------------ eval()
\* Python's eval() of an expression string, for the strings the bounded
\* queries produce: decimal literals, names, + - * /, unary sign, grouping
\* and calls.  What Python accepts beyond that (**, //, attribute access,
\* the empty tuple, exponents, keywords, other characters) is marked
\* "unmodelled"; ModelScope states that no run reaches it.

DigitChars == <<"0", "1", "2", "3", "4", "5", "6", "7", "8", "9">>

IsDigit(c) == c \in Range(DigitChars)

DigitVal(c) == (CHOOSE i \in DOMAIN DigitChars : DigitChars[i] = c) - 1

IsNameStart(c) == c \in Range(LowerChars) \/ IsUpper(c) \/ c = "_"

IsNameChar(c) == IsNameStart(c) \/ IsDigit(c)

DigitsEnd(s, i) ==
  CHOOSE j \in i..(Len(s) + 1) :
    /\ \A k \in i..(j - 1) : IsDigit(s[k])
    /\ j = Len(s) + 1 \/ ~IsDigit(s[j])

NameEnd(s, i) ==
  CHOOSE j \in i..(Len(s) + 1) :
    /\ \A k \in i..(j - 1) : IsNameChar(s[k])
    /\ j = Len(s) + 1 \/ ~IsNameChar(s[j])

\* digits [ "." digits ]  or  "." digits
NumberEnd(s, i) ==
  LET a == DigitsEnd(s, i)
  IN IF a <= Len(s) /\ s[a] = "." THEN DigitsEnd(s, a + 1) ELSE a

RECURSIVE DigitsValue(_)
DigitsValue(ds) ==
  IF ds = <<>> THEN 0
  ELSE 10 * DigitsValue(SubSeq(ds, 1, Len(ds) - 1)) + DigitVal(ds[Len(ds)])

RECURSIVE Pow10(_)
Pow10(k) == IF k = 0 THEN 1 ELSE 10 * Pow10(k - 1)

RECURSIVE Gcd(_, _)
Gcd(a, b) == IF b = 0 THEN a ELSE Gcd(b, a % b)

Abs(x) == IF x < 0 THEN -x ELSE x

\* A Python number: the rational n/d in lowest terms, d > 0; float tells an
\* int from a float.  A float is kept as the exact rational of the same
\* computation: its rounding is not modelled, and decides neither whether
\* eval() raises nor which exception.
Num(n, d, float) ==
  LET g == Gcd(Abs(n), d)
  IN [kind |-> "num", n |-> n \div g, d |-> d \div g, float |-> float]

Exc(name) == [kind |-> "exc", name |-> name]

Obj(name) == [kind |-> "obj", name |-> name]

Unmodelled == [kind |-> "unmodelled"]

Keywords ==
  { <<"a", "n", "d">>, <<"e", "l", "s", "e">>, <<"f", "o", "r">>, <<"i", "f">>,
    <<"i", "n">>, <<"i", "s">>, <<"n", "o", "t">>, <<"o", "r">> }

\* A name glued to the end of a number: Python reads an exponent, a complex
\* suffix, a digit separator, a 0x/0o/0b literal or a keyword here; anything
\* else is "invalid decimal literal".
SuffixIsPython(text, name) ==
  \/ name[1] = "e" /\ (Len(name) = 1 \/ IsDigit(name[2]))
  \/ name[1] \in {"j", "_"}
  \/ /\ text = <<"0">>
     /\ name[1] \in {"x", "o", "b"}
     /\ Len(name) >= 2
     /\ (IsDigit(name[2]) \/ name[2] \in {"a", "b", "c", "d", "e", "f", "_"})
  \/ \E k \in Keywords : StartsAt(name, 1, k)

\* The token of the number text s[i..j-1].
NumberToken(s, i, j) ==
  LET text == SubSeq(s, i, j - 1)
      hasDot == \E k \in DOMAIN text : text[k] = "."
      dot == IF hasDot THEN CHOOSE k \in DOMAIN text : text[k] = "." ELSE Len(text) + 1
      whole == SubSeq(text, 1, dot - 1)
      frac == SubSeq(text, dot + 1, Len(text))
  IN IF /\ ~hasDot
        /\ Len(text) > 1
        /\ text[1] = "0"
        /\ \E k \in DOMAIN text : text[k] # "0"
     THEN [t |-> "invalid"]    \* leading zeros in a decimal integer literal
     ELSE [t |-> "num",
           v |-> Num(DigitsValue(whole \o frac), Pow10(Len(frac)), hasDot)]

RECURSIVE Tokenize(_, _)
Tokenize(s, i) ==
  IF i > Len(s) THEN <<>>
  ELSE LET c == s[i]
       IN CASE IsSpace(c) -> Tokenize(s, i + 1)
            [] IsDigit(c) \/ (c = "." /\ i < Len(s) /\ IsDigit(s[i + 1])) ->
                 LET j == NumberEnd(s, i)
                 IN IF j <= Len(s) /\ IsNameStart(s[j])
                    THEN LET e == NameEnd(s, j)
                         IN <<IF SuffixIsPython(SubSeq(s, i, j - 1), SubSeq(s, j, e - 1))
                              THEN [t |-> "unmodelled"]
                              ELSE [t |-> "invalid"]>> \o Tokenize(s, e)
                    ELSE <<NumberToken(s, i, j)>> \o Tokenize(s, j)
            [] IsNameStart(c) ->
                 LET e == NameEnd(s, i)
                 IN <<IF SubSeq(s, i, e - 1) \in Keywords
                      THEN [t |-> "unmodelled"]
                      ELSE [t |-> "name", id |-> SubSeq(s, i, e - 1)]>> \o Tokenize(s, e)
            [] c \in {"+", "-", "(", ")"} ->
                 <<[t |-> "op", c |-> c]>> \o Tokenize(s, i + 1)
            [] c \in {"*", "/"} ->
                 IF i < Len(s) /\ s[i + 1] = c
                 THEN <<[t |-> "unmodelled"]>> \o Tokenize(s, i + 2)   \* ** and //
                 ELSE <<[t |-> "op", c |-> c]>> \o Tokenize(s, i + 1)
            [] c = "." ->
                 IF i < Len(s) /\ (IsNameStart(s[i + 1]) \/ s[i + 1] = ".")
                 THEN <<[t |-> "unmodelled"]>> \o Tokenize(s, i + 1)   \* a.b and ...
                 ELSE <<[t |-> "invalid"]>> \o Tokenize(s, i + 1)
            [] OTHER -> <<[t |-> "unmodelled"]>> \o Tokenize(s, i + 1)

\* The names eval() resolves in simple_calculator's scope, among those the
\* lower-cased bounded queries can spell: the module imported at the top of
\* the script and the interpreter's exit; any other name is unbound.
OS_NAME == <<"o", "s">>
EXIT_NAME == <<"e", "x", "i", "t">>

NameValue(id) ==
  IF id = OS_NAME THEN Obj("os")
  ELSE IF id = EXIT_NAME THEN Obj("exit")
  ELSE Exc("NameError")

Arith(op, l, r) ==
  IF l.kind = "num" /\ r.kind = "num"
  THEN CASE op = "+" -> Num(l.n * r.d + r.n * l.d, l.d * r.d, l.float \/ r.float)
         [] op = "-" -> Num(l.n * r.d - r.n * l.d, l.d * r.d, l.float \/ r.float)
         [] op = "*" -> Num(l.n * r.n, l.d * r.d, l.float \/ r.float)
         [] op = "/" -> IF r.n = 0 THEN Exc("ZeroDivisionError")
                        ELSE IF r.n > 0 THEN Num(l.n * r.d, l.d * r.n, TRUE)
                        ELSE Num(-(l.n * r.d), l.d * (-r.n), TRUE)
  ELSE Exc("TypeError")

\* Operands are evaluated left to right; the first exception raised wins.
Binary(op, l, r) ==
  IF l.kind = "exc" THEN l
  ELSE IF r.kind = "exc" THEN r
  ELSE Arith(op, l, r)

Unary(op, v) ==
  IF v.kind = "exc" THEN v
  ELSE IF v.kind = "num" THEN (IF op = "-" THEN Num(-v.n, v.d, v.float) ELSE v)
  ELSE Exc("TypeError")

\* callee(args): exit(...) raises SystemExit, which is a BaseException and
\* no Exception; a module or a number is not callable.
Call(callee, args) ==
  IF callee.kind = "exc" THEN callee
  ELSE IF \E k \in DOMAIN args : args[k].kind = "exc"
  THEN args[CHOOSE k \in DOMAIN args :
              args[k].kind = "exc" /\ \A m \in 1..(k - 1) : args[m].kind # "exc"]
  ELSE IF callee = Obj("exit") THEN Exc("SystemExit")
  ELSE Exc("TypeError")

\* Recursive descent over the tokens.  A result is [pos, out]: the index
\* after what was read (0: a syntax error) and the outcome of evaluating it.
SyntaxFail == [pos |-> 0, out |-> NoneVal]

TokAt(toks, i) == IF i <= Len(toks) THEN toks[i] ELSE [t |-> "end"]

IsOp(tok, cs) == tok.t = "op" /\ tok.c \in cs

\* Parse(rule, toks, i, acc): one rule of the grammar read at token i
\*   sum      : term (("+" | "-") term)*        acc: unused
\*   sumRest  : (("+" | "-") term)*             acc: the value so far
\*   term     : factor (("*" | "/") factor)*
\*   termRest : (("*" | "/") factor)*           acc: the value so far
\*   factor   : ("+" | "-") factor | primary
\*   primary  : atom trailer*
\*   trailers : ("(" [sum] ")")*                acc: the callee so far
\*   atom     : NUMBER | NAME | "(" sum ")"
RECURSIVE Parse(_, _, _, _)
Parse(rule, toks, i, acc) ==
  LET tok == TokAt(toks, i)
  IN CASE rule = "sum" ->
            LET l == Parse("term", toks, i, NoneVal)
            IN IF l.pos = 0 THEN l ELSE Parse("sumRest", toks, l.pos, l.out)
       [] rule = "sumRest" ->
            IF IsOp(tok, {"+", "-"})
            THEN LET r == Parse("term", toks, i + 1, NoneVal)
                 IN IF r.pos = 0 THEN r
                    ELSE Parse("sumRest", toks, r.pos, Binary(tok.c, acc, r.out))
            ELSE [pos |-> i, out |-> acc]
       [] rule = "term" ->
            LET l == Parse("factor", toks, i, NoneVal)
            IN IF l.pos = 0 THEN l ELSE Parse("termRest", toks, l.pos, l.out)
       [] rule = "termRest" ->
            IF IsOp(tok, {"*", "/"})
            THEN LET r == Parse("factor", toks, i + 1, NoneVal)
                 IN IF r.pos = 0 THEN r
                    ELSE Parse("termRest", toks, r.pos, Binary(tok.c, acc, r.out))
            ELSE [pos |-> i, out |-> acc]
       [] rule = "factor" ->
            IF IsOp(tok, {"+", "-"})
            THEN LET r == Parse("factor", toks, i + 1, NoneVal)
                 IN IF r.pos = 0 THEN r
                    ELSE [pos |-> r.pos, out |-> Unary(tok.c, r.out)]
            ELSE Parse("primary", toks, i, NoneVal)
       [] rule = "primary" ->
            LET a == Parse("atom", toks, i, NoneVal)
            IN IF a.pos = 0 THEN a ELSE Parse("trailers", toks, a.pos, a.out)
       [] rule = "trailers" ->
            IF ~IsOp(tok, {"("}) THEN [pos |-> i, out |-> acc]
            ELSE IF IsOp(TokAt(toks, i + 1), {")"})
            THEN Parse("trailers", toks, i + 2, Call(acc, <<>>))
            ELSE LET a == Parse("sum", toks, i + 1, NoneVal)
                 IN IF a.pos # 0 /\ IsOp(TokAt(toks, a.pos), {")"})
                    THEN Parse("trailers", toks, a.pos + 1, Call(acc, <<a.out>>))
                    ELSE SyntaxFail
       [] rule = "atom" ->
            CASE tok.t = "num" -> [pos |-> i + 1, out |-> tok.v]
              [] tok.t = "name" -> [pos |-> i + 1, out |-> NameValue(tok.id)]
              [] IsOp(tok, {"("}) ->
                   LET r == Parse("sum", toks, i + 1, NoneVal)
                   IN IF r.pos # 0 /\ IsOp(TokAt(toks, r.pos), {")"})
                      THEN [pos |-> r.pos + 1, out |-> r.out]
                      ELSE SyntaxFail
              [] OTHER -> SyntaxFail

\* "(" ")" where no callee precedes it is the empty tuple.
HasEmptyTuple(toks) ==
  \E i \in 1..(Len(toks) - 1) :
    /\ IsOp(toks[i], {"("})
    /\ IsOp(toks[i + 1], {")"})
    /\ i = 1 \/ IsOp(toks[i - 1], {"+", "-", "*", "/", "("})

\* eval(expression): the value, or the exception raised.  The string is
\* compiled whole before anything runs, so a syntax error anywhere wins.
PyEval(expression) ==
  LET toks == Tokenize(expression, 1)
  IN IF (\E i \in DOMAIN toks : toks[i].t = "unmodelled") \/ HasEmptyTuple(toks)
     THEN Unmodelled
     ELSE IF \E i \in DOMAIN toks : toks[i].t = "invalid" THEN Exc("SyntaxError")
     ELSE LET r == Parse("sum", toks, 1, NoneVal)
          IN IF r.pos = Len(toks) + 1 THEN r.out ELSE Exc("SyntaxError")

\* except Exception: every built-in exception but SystemExit,
\* KeyboardInterrupt and GeneratorExit.
IsException(e) == e.kind = "exc" /\ e.name # "SystemExit"

\* ------------------------------------------------------- the two functions

\* simple_calculator's two f-strings.
ResultFormat == "The result of '{expression}' is: {result}"
ErrorFormat == "Error evaluating expression '{expression}': {e}"

\* simple_calculator(expression): the string returned, or the exception
\* that leaves the function (one "except Exception" does not catch).
simple_calculator(expression) ==
  LET result == PyEval(expression)
  IN IF result.kind # "exc"
     THEN [kind |-> "returned",
           text |-> [fmt |-> ResultFormat,
                     expression |-> expression, result |-> result]]
     ELSE IF IsException(result)
     THEN [kind |-> "returned",
           text |-> [fmt |-> ErrorFormat,
                     expression |-> expression, e |-> result.name]]
     ELSE [kind |-> "raised", exc |-> result.name]

\* The test without .lower(): "calculate" and "what is" matched as typed.
IsCalculationRequestCaseSensitive(query) ==
  \/ Contains(query, CALCULATE)
  \/ /\ Contains(query, WHAT_IS)
     /\ \E op \in OperatorChars : Contains(query, <<op>>)

\* run_agent's test: "calculate" in query.lower() or ("what is" in
\* query.lower() and any(op in query for op in ["+", "-", "*", "/"]))
IsCalculationRequest(query) ==
  \/ Contains(Lower(query), CALCULATE)
  \/ /\ Contains(Lower(query), WHAT_IS)
     /\ \E op \in OperatorChars : Contains(query, <<op>>)

\* The two assignments without .lower(): phrases removed as typed only.
ExtractExpressionKeepCase(query) ==
  LET first == Strip(Remove(Remove(query, CALCULATE), WHAT_IS))
  IN Strip(Remove(Remove(first, QUESTION_MARK), THE_RESULT_OF))

\* run_agent's two assignments to expression.
ExtractExpression(query) ==
  LET first == Strip(Remove(Remove(Lower(query), CALCULATE), WHAT_IS))
  IN Strip(Remove(Remove(first, QUESTION_MARK), THE_RESULT_OF))

\* ------------------------------------------------------------------ inputs

\* example_prompts[1..5]; the placeholder entry leaves the text input empty.
EXAMPLE_MATH_1 ==
  <<"W", "h", "a", "t", " ", "i", "s", " ", "1", "5", " ", "*", " ", "3", "?">>
EXAMPLE_STORY ==
  <<"T", "e", "l", "l", " ", "m", "e", " ", "a", " ", "s", "h", "o", "r", "t", " ",
    "s", "t", "o", "r", "y", " ", "a", "b", "o", "u", "t", " ", "a", " ", "b", "r",
    "a", "v", "e", " ", "k", "n", "i", "g", "h", "t", ".">>
EXAMPLE_MATH_2 ==
  <<"C", "a", "l", "c", "u", "l", "a", "t", "e", " ", "(", "2", "0", " ", "+", " ",
    "5", ")", " ", "/", " ", "5", ".">>
EXAMPLE_EXPLAIN ==
  <<"E", "x", "p", "l", "a", "i", "n", " ", "t", "h", "e", " ", "c", "o", "n", "c",
    "e", "p", "t", " ", "o", "f", " ", "a", "r", "t", "i", "f", "i", "c", "i", "a",
    "l", " ", "i", "n", "t", "e", "l", "l", "i", "g", "e", "n", "c", "e", ".">>
EXAMPLE_MATH_3 ==
  <<"W", "h", "a", "t", " ", "i", "s", " ", "1", "0", "0", "0", " ", "-", " ", "1",
    "2", "3", "?">>

\* What the text input holds when an entry of the select box is taken.
ExampleInputs ==
  {<<>>, EXAMPLE_MATH_1, EXAMPLE_STORY, EXAMPLE_MATH_2, EXAMPLE_EXPLAIN, EXAMPLE_MATH_3}

\* Two failing calculations, typed.
DIV_BY_ZERO_QUERY == <<"W", "h", "a", "t", " ", "i", "s", " ", "5", " ", "/", " ", "0">>
BAD_SYNTAX_QUERY == <<"C", "a", "l", "c", "u", "l", "a", "t", "e", " ", "2", " ", "+", " ">>

\* The pieces typed queries are put together from.
Fragments ==
  { <<"C", "a", "l", "c", "u", "l", "a", "t", "e", " ">>,
    <<"W", "h", "a", "t", " ", "i", "s", " ">>,
    <<"t", "h", "e", " ", "r", "e", "s", "u", "l", "t", " ", "o", "f", " ">>,
    <<"1", "5">>,
    <<" ", "*", " ", "3">>,
    <<"?">>,
    <<"(", "2", "0", " ", "+", " ", "5", ")">>,
    <<" ", "/", " ", "5", ".">>,
    <<" ", "/", " ", "0">>,
    <<"e", "x", "i", "t", "(", ")">>,
    <<"O", "S">> }

RECURSIVE FragQueries(_)
FragQueries(n) ==
  IF n = 0 THEN {<<>>}
  ELSE LET shorter == FragQueries(n - 1)
       IN shorter \cup {q \o f : q \in shorter, f \in Fragments}

\* Every value the text input takes in the model.
TypedQueries ==
  FragQueries(MaxFrags) \cup ExampleInputs \cup {DIV_BY_ZERO_QUERY, BAD_SYNTAX_QUERY}

\* ----------------------------------------------------- the text generator

\* llm_generator(prompt, max_new_tokens=n, num_return_sequences=1, ...): a
\* list of num_return_sequences dicts.  The sampled text is opaque: it is
\* named by the call that produced it and its place in the list.
Generate(prompt, max_new_tokens) ==
  [k \in 1..NUM_RETURN_SEQUENCES |->
     [generated_text |->
        [prompt |-> prompt, max_new_tokens |-> max_new_tokens, sequence |-> k]]]

\* One call of the pipeline, as the function making it sees it.
LLMCall(model, prompt, max_new_tokens) ==
  [model |-> model, prompt |-> prompt, max_new_tokens |-> max_new_tokens,
   num_return_sequences |-> NUM_RETURN_SEQUENCES]

\* What a function did: the steps appended to processing_info, the branch
\* taken, the calculator and pipeline calls made, and how it ended:
\* [kind |-> "returned", info, response] (the string returned, in its two
\* parts) or [kind |-> "raised", exc].
Returned(info, response) == [kind |-> "returned", info |-> info, response |-> response]

Raised(exc) == [kind |-> "raised", exc |-> exc]

\* The pipeline call ends in the generated list or in an exception; a
\* load_offline_llm that returned None makes it a TypeError.
CallEnds(model, generated) ==
  IF model = NoneVal THEN {Raised("TypeError")}
  ELSE {[kind |-> "generated", data |-> generated], Raised("GenerationFailure")}

\* run_agent falling back to the pipeline when the calculator reports an
\* error.
run_agent_fallback(query, model, end) ==
  IF IsCalculationRequest(query)
  THEN LET info == <<AgentToolStep>>
           expression == ExtractExpression(query)
           response == simple_calculator(expression)
           failed == response.kind = "returned" /\ "e" \in DOMAIN response.text
       IN [info |-> IF failed THEN info \o <<AgentLLMStep>> ELSE info,
           intent |-> "ToolInvocation",
           tools |-> <<expression>>,
           calls |-> IF failed THEN <<LLMCall(model, query, AGENT_MAX_NEW_TOKENS)>>
                     ELSE <<>>,
           out |-> IF response.kind # "returned" THEN response
                   ELSE IF ~failed THEN Returned(info, response.text)
                   ELSE IF end.kind = "generated"
                   THEN Returned(info \o <<AgentLLMStep>>, end.data[1].generated_text)
                   ELSE end]
  ELSE LET info == <<AgentLLMStep>>
       IN [info |-> info, intent |-> "GenerationRequest",
           tools |-> <<>>, calls |-> <<LLMCall(model, query, AGENT_MAX_NEW_TOKENS)>>,
           out |-> IF end.kind = "generated"
                   THEN Returned(info, end.data[1].generated_text)
                   ELSE end]

\* run_agent(query), with the way its pipeline call (if any) ends.
run_agent(query, model, end) ==
  IF IsCalculationRequest(query)
  THEN LET info == <<AgentToolStep>>
           expression == ExtractExpression(query)
           response == simple_calculator(expression)
       IN [info |-> info, intent |-> "ToolInvocation",
           tools |-> <<expression>>, calls |-> <<>>,
           out |-> IF response.kind = "returned"
                   THEN Returned(info, response.text)
                   ELSE response]
  ELSE LET info == <<AgentLLMStep>>
       IN [info |-> info, intent |-> "GenerationRequest",
           tools |-> <<>>, calls |-> <<LLMCall(model, query, AGENT_MAX_NEW_TOKENS)>>,
           out |-> IF end.kind = "generated"
                   THEN Returned(info, end.data[1].generated_text)
                   ELSE end]

\* run_non_agentic_llm sharing run_agent's routing.
run_non_agentic_llm_routed(query, model, end) ==
  IF IsCalculationRequest(query)
  THEN run_agent(query, model, end)
  ELSE LET info == <<DirectStep>>
       IN [info |-> info, intent |-> "none",
           tools |-> <<>>, calls |-> <<LLMCall(model, query, DIRECT_MAX_NEW_TOKENS)>>,
           out |-> IF end.kind = "generated"
                   THEN Returned(info, end.data[1].generated_text)
                   ELSE end]

\* run_non_agentic_llm(query), with the way its pipeline call ends.
run_non_agentic_llm(query, model, end) ==
  LET info == <<DirectStep>>
  IN [info |-> info, intent |-> "none",
      tools |-> <<>>, calls |-> <<LLMCall(model, query, DIRECT_MAX_NEW_TOKENS)>>,
      out |-> IF end.kind = "generated"
              THEN Returned(info, end.data[1].generated_text)
              ELSE end]

\* ------------------------------------------------------------------- state

VARIABLES
  cache,                 \* st.cache_resource's entry for load_offline_llm()
  lock,                  \* the session computing the entry (0: none)
  loads,                 \* each run of load_offline_llm's body: TRUE, it returned
  pc,                    \* where each session's script run stands
  llm_generator,         \* the script's global of that name
  user_input,            \* the text input's value
  status,                \* how the session's last script run ended
  direct_info,           \* processing_info of run_non_agentic_llm
  agent_info,            \* processing_info of run_agent
  intent,                \* the branch run_agent took
  llmCalls,              \* pipeline calls of the run, each with its path
  toolCalls,             \* simple_calculator calls of the run, each with its path
  non_agentic_response,
  agentic_response,
  exception,             \* the exception that ended the run, with its path
  page                   \* the two columns as displayed

shared == <<cache, lock, loads>>
paths == <<direct_info, agent_info, intent, llmCalls, toolCalls,
           non_agentic_response, agentic_response>>
vars == <<cache, lock, loads, pc, llm_generator, user_input, status, direct_info,
          agent_info, intent, llmCalls, toolCalls, non_agentic_response,
          agentic_response, exception, page>>

Sessions == DOMAIN pc

EmptyPage == [col1 |-> NoneVal, col2 |-> NoneVal]

InitFor(SS) ==
  /\ cache = NoneVal
  /\ lock = 0
  /\ loads = <<>>
  /\ pc = [s \in SS |-> "idle"]
  /\ llm_generator = [s \in SS |-> NoneVal]
  /\ user_input = [s \in SS |-> <<>>]
  /\ status = [s \in SS |-> "none"]
  /\ direct_info = [s \in SS |-> <<>>]
  /\ agent_info = [s \in SS |-> <<>>]
  /\ intent = [s \in SS |-> "none"]
  /\ llmCalls = [s \in SS |-> <<>>]
  /\ toolCalls = [s \in SS |-> <<>>]
  /\ non_agentic_response = [s \in SS |-> NoneVal]
  /\ agentic_response = [s \in SS |-> NoneVal]
  /\ exception = [s \in SS |-> NoneVal]
  /\ page = [s \in SS |-> EmptyPage]

\* ----------------------------------------------------------------- actions

\* A widget interaction (or the first visit) starts the script from the top.
StartRun(s) ==
  /\ pc[s] = "idle"
  /\ pc' = [pc EXCEPT ![s] = "load"]
  /\ llm_generator' = [llm_generator EXCEPT ![s] = NoneVal]
  /\ user_input' = [user_input EXCEPT ![s] = <<>>]
  /\ status' = [status EXCEPT ![s] = "running"]
  /\ direct_info' = [direct_info EXCEPT ![s] = <<>>]
  /\ agent_info' = [agent_info EXCEPT ![s] = <<>>]
  /\ intent' = [intent EXCEPT ![s] = "none"]
  /\ llmCalls' = [llmCalls EXCEPT ![s] = <<>>]
  /\ toolCalls' = [toolCalls EXCEPT ![s] = <<>>]
  /\ non_agentic_response' = [non_agentic_response EXCEPT ![s] = NoneVal]
  /\ agentic_response' = [agentic_response EXCEPT ![s] = NoneVal]
  /\ exception' = [exception EXCEPT ![s] = NoneVal]
  /\ page' = [page EXCEPT ![s] = EmptyPage]
  /\ UNCHANGED shared

\* load_offline_llm without its decorator: no read finds an entry.
cache_read_uncached == NoneVal

\* @st.cache_resource: what a read of the entry finds.
cache_read == cache

\* llm_generator = load_offline_llm(), first read of the cache, no lock held.
LoadCached(s) ==
  /\ pc[s] = "load"
  /\ IF cache_read # NoneVal
     THEN /\ llm_generator' = [llm_generator EXCEPT ![s] = cache_read]
          /\ pc' = [pc EXCEPT ![s] = "loaded"]
     ELSE /\ pc' = [pc EXCEPT ![s] = "miss"]
          /\ UNCHANGED llm_generator
  /\ UNCHANGED <<shared, user_input, status, paths, exception, page>>

\* A miss takes the entry's lock before computing.
AcquireLock(s) ==
  /\ pc[s] = "miss"
  /\ lock = 0
  /\ lock' = s
  /\ pc' = [pc EXCEPT ![s] = "locked"]
  /\ UNCHANGED <<cache, loads, llm_generator, user_input, status, paths, exception, page>>

\* load_offline_llm's try branch: pipeline(...) returned.
LoadReturned(s) ==
  LET generator == [kind |-> "pipeline", id |-> Len(loads) + 1]
  IN /\ loads' = Append(loads, TRUE)
     /\ cache' = generator
     /\ llm_generator' = [llm_generator EXCEPT ![s] = generator]
     /\ pc' = [pc EXCEPT ![s] = "loaded"]
     /\ UNCHANGED status

\* The except branch without st.stop(): the function returns None and the
\* script goes on.
LoadFailedContinues(s) ==
  /\ loads' = Append(loads, FALSE)
  /\ pc' = [pc EXCEPT ![s] = "loaded"]
  /\ UNCHANGED <<cache, llm_generator, status>>

\* load_offline_llm's except branch: st.error(...), then st.stop() ends the
\* script run; nothing is cached.
LoadFailed(s) ==
  /\ loads' = Append(loads, FALSE)
  /\ pc' = [pc EXCEPT ![s] = "idle"]
  /\ status' = [status EXCEPT ![s] = "stopped"]
  /\ UNCHANGED <<cache, llm_generator>>

\* With the lock held the cache is read again; still a miss, the body runs.
LoadLocked(s) ==
  /\ pc[s] = "locked"
  /\ lock' = 0
  /\ IF cache_read # NoneVal
     THEN /\ llm_generator' = [llm_generator EXCEPT ![s] = cache_read]
          /\ pc' = [pc EXCEPT ![s] = "loaded"]
          /\ UNCHANGED <<cache, loads, status>>
     ELSE \/ Len(loads) < MaxBodyRuns /\ LoadReturned(s)
          \/ Len(loads) + 1 < MaxBodyRuns /\ LoadFailed(s)
  /\ UNCHANGED <<user_input, paths, exception, page>>

\* The widgets and the button: the text input holds q; without a click the
\* script only renders, with a click and no text it warns.
Button(s, Q) ==
  /\ pc[s] = "loaded"
  /\ \E q \in Q, click \in BOOLEAN :
       /\ user_input' = [user_input EXCEPT ![s] = q]
       /\ IF click /\ q # <<>>
          THEN pc' = [pc EXCEPT ![s] = "direct"] /\ UNCHANGED status
          ELSE /\ pc' = [pc EXCEPT ![s] = "idle"]
               /\ status' = [status EXCEPT ![s] = IF click THEN "warning" ELSE "rendered"]
  /\ UNCHANGED <<shared, llm_generator, paths, exception, page>>

Tag(path, xs) == [i \in DOMAIN xs |-> [path |-> path, call |-> xs[i]]]

\* What a path leaves behind when its function has run to its end r.
Ran(s, path, r) ==
  /\ llmCalls' = [llmCalls EXCEPT ![s] = @ \o Tag(path, r.calls)]
  /\ toolCalls' = [toolCalls EXCEPT ![s] = @ \o Tag(path, r.tools)]
  /\ intent' = [intent EXCEPT ![s] = IF r.intent = "none" THEN @ ELSE r.intent]
  /\ IF r.out.kind = "returned"
     THEN UNCHANGED <<exception, status>>
     ELSE /\ exception' = [exception EXCEPT ![s] = [path |-> path, exc |-> r.out.exc]]
          /\ status' = [status EXCEPT ![s] = "exception"]

\* non_agentic_response = run_non_agentic_llm(user_input), the function
\* having run to its end r.
NonAgenticRan(s, r) ==
  /\ Ran(s, "direct", r)
  /\ direct_info' = [direct_info EXCEPT ![s] = r.info]
  /\ IF r.out.kind = "returned"
     THEN /\ non_agentic_response' = [non_agentic_response EXCEPT ![s] = r.out]
          /\ pc' = [pc EXCEPT ![s] = "routed"]
     ELSE /\ pc' = [pc EXCEPT ![s] = "idle"]
          /\ UNCHANGED non_agentic_response

RunNonAgentic(s) ==
  /\ pc[s] = "direct"
  /\ \E end \in CallEnds(llm_generator[s],
                         Generate(user_input[s], DIRECT_MAX_NEW_TOKENS)) :
       NonAgenticRan(s, run_non_agentic_llm(user_input[s], llm_generator[s], end))
  /\ UNCHANGED <<shared, llm_generator, user_input, agent_info, agentic_response, page>>

\* agentic_response = run_agent(user_input), the function having run to
\* its end r.
AgentRan(s, r) ==
  /\ Ran(s, "routed", r)
  /\ agent_info' = [agent_info EXCEPT ![s] = r.info]
  /\ IF r.out.kind = "returned"
     THEN /\ agentic_response' = [agentic_response EXCEPT ![s] = r.out]
          /\ pc' = [pc EXCEPT ![s] = "col1"]
     ELSE /\ pc' = [pc EXCEPT ![s] = "idle"]
          /\ UNCHANGED agentic_response

RunAgent(s) ==
  /\ pc[s] = "routed"
  /\ \E end \in CallEnds(llm_generator[s],
                         Generate(user_input[s], AGENT_MAX_NEW_TOKENS)) :
       AgentRan(s, run_agent(user_input[s], llm_generator[s], end))
  /\ UNCHANGED <<shared, llm_generator, user_input, direct_info, non_agentic_response, page>>

\* with col1: st.info(non_agentic_response)
ShowNonAgentic(s) ==
  /\ pc[s] = "col1"
  /\ page' = [page EXCEPT ![s].col1 = non_agentic_response[s]]
  /\ pc' = [pc EXCEPT ![s] = "col2"]
  /\ UNCHANGED <<shared, llm_generator, user_input, status, paths, exception>>

\* with col2: st.success(agentic_response); the rest of the script renders.
ShowAgentic(s) ==
  /\ pc[s] = "col2"
  /\ page' = [page EXCEPT ![s].col2 = agentic_response[s]]
  /\ pc' = [pc EXCEPT ![s] = "idle"]
  /\ status' = [status EXCEPT ![s] = "rendered"]
  /\ UNCHANGED <<shared, llm_generator, user_input, paths, exception>>

\* ---------------------------------------------------------- specifications

\* What is typed in the shared-model specification: nothing, or one of the
\* first two examples.
SharedInputs == {<<>>, EXAMPLE_MATH_1, EXAMPLE_STORY}

\* One session, every typed query.
Init == InitFor({1})

Next ==
  \/ \E s \in Sessions : StartRun(s)
  \/ \E s \in Sessions : LoadCached(s)
  \/ \E s \in Sessions : AcquireLock(s)
  \/ \E s \in Sessions : LoadLocked(s)
  \/ \E s \in Sessions : Button(s, TypedQueries)
  \/ \E s \in Sessions : RunNonAgentic(s)
  \/ \E s \in Sessions : RunAgent(s)
  \/ \E s \in Sessions : ShowNonAgentic(s)
  \/ \E s \in Sessions : ShowAgentic(s)

Spec == Init /\ [][Next]_vars

\* NumSessions sessions sharing the cached model, the example queries.
InitShared == InitFor(1..NumSessions)

NextShared ==
  \/ \E s \in Sessions : StartRun(s)
  \/ \E s \in Sessions : LoadCached(s)
  \/ \E s \in Sessions : AcquireLock(s)
  \/ \E s \in Sessions : LoadLocked(s)
  \/ \E s \in Sessions : Button(s, SharedInputs)
  \/ \E s \in Sessions : RunNonAgentic(s)
  \/ \E s \in Sessions : RunAgent(s)
  \/ \E s \in Sessions : ShowNonAgentic(s)
  \/ \E s \in Sessions : ShowAgentic(s)

SpecShared == InitShared /\ [][NextShared]_vars

\* No run evaluates an expression outside what PyEval models.
ModelScope ==
  \A s \in Sessions : \A i \in DOMAIN toolCalls[s] :
    PyEval(toolCalls[s][i].call).kind # "unmodelled"

\* ------------------------------------------------------------------ claims

\* p occurs in s, by comparing slices.
HasSubstring(s, p) ==
  \E i \in 1..(Len(s) - Len(p) + 1) : SubSeq(s, i, i + Len(p) - 1) = p

HasChar(s, cs) == \E i \in DOMAIN s : s[i] \in cs

\* The calls of a path in the session's current run.
LLMCallsOf(s, path) == {i \in DOMAIN llmCalls[s] : llmCalls[s][i].path = path}

ToolCallsOf(s, path) == {i \in DOMAIN toolCalls[s] : toolCalls[s][i].path = path}

EXPR_15_TIMES_3 == <<"1", "5", " ", "*", " ", "3">>
EXPR_25_OVER_5 == <<"(", "2", "0", " ", "+", " ", "5", ")", " ", "/", " ", "5">>
EXPR_25_OVER_5_POINT == EXPR_25_OVER_5 \o <<".">>

\* C1: once run_agent has run, it took the calculator branch exactly when the
\* lower-cased query contains "calculate", or contains "what is" while the
\* query holds one of + - * /; otherwise it took the generation branch and
\* the prompt given to the pipeline is the query unchanged. One of the two
\* branches is always taken.
C1_Classification ==
  \A s \in Sessions :
    agent_info[s] # <<>> =>
      /\ intent[s] \in {"ToolInvocation", "GenerationRequest"}
      /\ intent[s] = "ToolInvocation" <=>
           \/ HasSubstring(Lower(user_input[s]), CALCULATE)
           \/ /\ HasSubstring(Lower(user_input[s]), WHAT_IS)
              /\ HasChar(user_input[s], {"+", "-", "*", "/"})
      /\ intent[s] = "GenerationRequest" =>
           /\ LLMCallsOf(s, "routed") # {}
           /\ \A i \in LLMCallsOf(s, "routed") :
                llmCalls[s][i].call.prompt = user_input[s]

\* A query with "what is" and no operator went to the pipeline.
C1_Witness ==
  \E s \in Sessions :
    /\ intent[s] = "GenerationRequest"
    /\ HasSubstring(Lower(user_input[s]), WHAT_IS)
    /\ LLMCallsOf(s, "routed") # {}

\* C2: on the calculator branch run_agent always returns a response, the
\* formatted result or the formatted error; no exception leaves
\* simple_calculator or run_agent.
C2_ToolInvocationAlwaysResponds ==
  \A s \in Sessions :
    intent[s] = "ToolInvocation" =>
      /\ exception[s] = NoneVal
      /\ agentic_response[s] # NoneVal
      /\ agentic_response[s].response.fmt \in {ResultFormat, ErrorFormat}

\* A comparison run that is over: the button was clicked on a non-empty
\* query, run_non_agentic_llm was entered and the script has ended.
ComparisonOver(s) == pc[s] = "idle" /\ direct_info[s] # <<>>

\* C3: a comparison run on a non-empty query, none of whose pipeline calls
\* fails, ends with both responses produced, each after at least one step,
\* and both displayed; and nothing is displayed before both paths returned.
C3_BothResultsProduced ==
  \A s \in Sessions :
    /\ (ComparisonOver(s) /\ \A t \in Sessions :
                               exception[t] = NoneVal \/ exception[t].exc # "GenerationFailure") =>
         /\ non_agentic_response[s] # NoneVal
         /\ agentic_response[s] # NoneVal
         /\ non_agentic_response[s].info # <<>>
         /\ agentic_response[s].info # <<>>
         /\ page[s] = [col1 |-> non_agentic_response[s], col2 |-> agentic_response[s]]
    /\ page[s] # EmptyPage =>
         non_agentic_response[s] # NoneVal /\ agentic_response[s] # NoneVal

\* C4: when the pipeline call of the direct path fails, the routed path
\* still runs and produces its own steps and response.
C4_OtherPathStillRuns ==
  \A s \in Sessions :
    (/\ ComparisonOver(s)
     /\ exception[s] # NoneVal
     /\ exception[s] = [path |-> "direct", exc |-> "GenerationFailure"]) =>
      /\ agent_info[s] # <<>>
      /\ agentic_response[s] # NoneVal

AllowedExpressionChars ==
  Range(DigitChars) \cup {"+", "-", "*", "/", "(", ")", ".", " "}

\* C5: an expression holding a character outside [0-9+-*/(). ] is rejected:
\* the calculator answers with the error text and runs nothing.
C5_OnlyArithmeticAccepted ==
  \A s \in Sessions : \A i \in ToolCallsOf(s, "routed") :
    (\E k \in DOMAIN toolCalls[s][i].call :
       toolCalls[s][i].call[k] \notin AllowedExpressionChars) =>
      /\ exception[s] = NoneVal
      /\ agentic_response[s] # NoneVal
      /\ agentic_response[s].response.fmt = ErrorFormat

\* s without the occurrences of p, matched whatever the case, the other
\* characters as typed.
RECURSIVE RemoveAnyCase(_, _, _)
RemoveAnyCase(s, i, p) ==
  IF i > Len(s) THEN <<>>
  ELSE IF StartsAt(Lower(s), i, p) THEN RemoveAnyCase(s, i + Len(p), p)
  ELSE <<s[i]>> \o RemoveAnyCase(s, i + 1, p)

DropTrailingQuestionMark(s) ==
  IF s # <<>> /\ s[Len(s)] = "?" THEN SubSeq(s, 1, Len(s) - 1) ELSE s

\* The extraction as C6 words it.
VerbatimExtract(query) ==
  LET a == RemoveAnyCase(query, 1, CALCULATE)
      b == RemoveAnyCase(a, 1, WHAT_IS)
      c == RemoveAnyCase(b, 1, THE_RESULT_OF)
  IN Strip(DropTrailingQuestionMark(Strip(c)))

Symbols(s) ==
  SelectSeq(s, LAMBDA c : ~IsNameStart(c) /\ ~IsSpace(c) /\ c # "?")

C7_DirectPath ==
  \A s \in Sessions :
    direct_info[s] # <<>> =>
      /\ direct_info[s] = <<DirectStep>>
      /\ Cardinality(LLMCallsOf(s, "direct")) = 1
      /\ \A i \in LLMCallsOf(s, "direct") :
           /\ llmCalls[s][i].call.prompt = user_input[s]
           /\ llmCalls[s][i].call.max_new_tokens = DIRECT_MAX_NEW_TOKENS
           /\ \A j \in LLMCallsOf(s, "routed") :
                llmCalls[s][j].call.max_new_tokens < llmCalls[s][i].call.max_new_tokens
      /\ DIRECT_MAX_NEW_TOKENS > AGENT_MAX_NEW_TOKENS
      /\ ToolCallsOf(s, "direct") = {}
      /\ pc[s] = "routed" => intent[s] = "none" /\ toolCalls[s] = <<>>
      /\ non_agentic_response[s] # NoneVal =>
           /\ non_agentic_response[s].info = <<DirectStep>>
           /\ non_agentic_response[s].response.prompt = user_input[s]
           /\ non_agentic_response[s].response.sequence = 1

\* The direct path answered, through the pipeline, a query the routed path
\* hands to the calculator.
C7_Witness ==
  \E s \in Sessions :
    /\ non_agentic_response[s] # NoneVal
    /\ intent[s] = "ToolInvocation"
    /\ LLMCallsOf(s, "direct") # {}

C10_LoadFailureFatal ==
  \A s \in Sessions :
    /\ status[s] = "stopped" =>
         /\ pc[s] = "idle"
         /\ llm_generator[s] = NoneVal
         /\ llmCalls[s] = <<>> /\ toolCalls[s] = <<>>
         /\ direct_info[s] = <<>> /\ agent_info[s] = <<>>
         /\ page[s] = EmptyPage
    /\ \A i \in DOMAIN llmCalls[s] :
         /\ llmCalls[s][i].call.model # NoneVal
         /\ llmCalls[s][i].call.model.id \in DOMAIN loads
         /\ loads[llmCalls[s][i].call.model.id]
    /\ pc[s] \in {"loaded", "direct", "routed", "col1", "col2"} =>
         llm_generator[s] # NoneVal

\* One session's run was stopped by a failed load while another session,
\* after a later load, called the pipeline.
C10_Witness ==
  \E s, t \in Sessions :
    /\ status[s] = "stopped"
    /\ llmCalls[t] # <<>>

====
